---- MODULE Spec2Model ----
(***************************************************************************)
(* Model of `gh run watch` (pkg/cmd/run/watch/watch.go): the command's     *)
(* RunE closure, watchRun and renderRun, one action per statement group.   *)
(* The REST client, the prompt and the renderers of package run/shared are *)
(* external collaborators: a call to one of them is a nondeterministic     *)
(* choice over its possible results.                                       *)
(*                                                                         *)
(* Strings that the code builds or compares are modelled as tuples (the    *)
(* empty string is <<>>); an error is the tuple of its message layers,     *)
(* outermost first, and nil is <<>>.                                       *)
(***************************************************************************)
EXTENDS Integers, Sequences, FiniteSets, TLC

\* ---------------------------------------------------------------- bounds
MaxIter == 2        \* loop iterations explored
MaxJobs == 2        \* jobs in one job snapshot

\* ------------------------------------------------------------- constants
Interval == 2       \* opts.Interval set by NewCmdWatch

InProgress == "in_progress"
Completed  == "completed"
Success    == "success"
Failure    == "failure"

\* the code tells completed from every other status; in_progress stands for
\* the others
Statuses    == {InProgress, Completed}
Conclusions == {"", Success, Failure}

RunIDs      == {12}             \* identifiers of runs on the remote
PRNumbers   == {3}              \* pull request numbers the lookup may return
ApiError    == "HTTP 500"       \* the underlying error of a failed call

NoRun == [ID |-> 0, Status |-> "", Conclusion |-> ""]    \* nil *shared.Run

\* ---------------------------------------------------------------- helpers
\* job snapshots: the jobs of a run, identified by their position in it
JobLists == {[i \in 1..n |-> i] : n \in 0..MaxJobs}
\* what GetAnnotations may return for a job: nothing, one annotation, two in
\* an order no sort would produce, the same annotation twice
AnnLists == {<<>>, <<"a">>, <<"b", "a">>, <<"a", "a">>}

\* fmt.Sprintf("%d", n) for n >= 0: the decimal digits of n
RECURSIVE FormatInt(_)
FormatInt(n) == IF n < 10 THEN <<n>> ELSE Append(FormatInt(n \div 10), n % 10)

\* the run id a decimal string names (what the remote resolves the path to)
RECURSIVE ParseInt(_)
ParseInt(s) == IF Len(s) = 0 THEN 0
               ELSE 10 * ParseInt(SubSeq(s, 1, Len(s) - 1)) + s[Len(s)]

\* fmt.Errorf("<msg>: %w", cause)
Errorf(msg, cause) == <<msg>> \o cause
Nil == <<>>
Contains(e, msg) == \E i \in 1..Len(e) : e[i] = msg

\* fmt.Sprintf(" #%d", number)
PRSuffix(number) == <<" #">> \o FormatInt(number)

\* a suffix formatted without looking at the lookup's error
PRNumberOf_Unchecked(ok, number) == PRSuffix(number)

\* prNumber := ""; if err == nil { prNumber = fmt.Sprintf(" #%d", number) }
PRNumberOf(ok, number) == IF ok THEN PRSuffix(number) ELSE <<>>

\* a prompt failure that watchRun swallows
PromptErr_Swallowed(cause) == Nil

\* the errors of the setup steps; the prompt's error is returned as it is
FlagErr == <<"run ID required when not running interactively">>
HttpClientErr(cause) == Errorf("failed to create http client", cause)
BaseRepoErr(cause) == Errorf("failed to determine base repo", cause)
PromptErr(cause) == cause

\* a run fetch error returned without its cause
GetRunErr_Unwrapped(cause) == <<"failed to get run">>

\* the errors renderRun and watchRun return for a failed fetch
GetRunErr(cause) == Errorf("failed to get run", cause)
GetJobsErr_CopyPaste(cause) == Errorf("failed to get run", cause)
GetJobsErr(cause) == Errorf("failed to get jobs", cause)
\* the annotation error returned through a variable that holds nil
GetAnnotationsErr_WrongVar(cause) == Nil
GetAnnotationsErr(cause) == Errorf("failed to get annotations", cause)

RECURSIVE Flatten(_)
Flatten(ss) == IF Len(ss) = 0 THEN <<>> ELSE Head(ss) \o Flatten(Tail(ss))

\* ------------------------------------------------------------------ state
VARIABLES
    pc,         \* position in RunE / watchRun / renderRun
    opts,       \* WatchOptions: RunID, Prompt
    runID,      \* watchRun's runID
    run,        \* watchRun's run
    prNumber,   \* watchRun's prNumber
    err,        \* the error the command returns (Nil while running)
    rr,         \* renderRun's activation: its locals, popped on return
    iter,       \* loop iterations begun
    out,        \* opts.IO.Out: the writes made, in order
    calls,      \* requests the API client has served, in order
    sleeps,     \* durations handed to time.Sleep, in nanoseconds
    view        \* the `workflow view` command: its position, options, events

watchVars == <<pc, opts, runID, run, prNumber, err, rr, iter, out, calls, sleeps>>
vars == <<pc, opts, runID, run, prNumber, err, rr, iter, out, calls, sleeps, view>>

\* renderRun's locals before the call.  Three fields are history of the
\* activation: `fetched`, the lists GetAnnotations returned; `report`, the
\* argument of each call of RenderRunHeader, RenderJobs and
\* RenderAnnotations; `out0`, the output stream as it was at the call
NoReport == [header |-> <<>>, jobs |-> <<>>, annotations |-> <<>>]
NoFrame  == [run |-> NoRun, jobs |-> <<>>, annotations |-> <<>>, as |-> <<>>,
             annotationErr |-> Nil, job |-> 1, err |-> Nil,
             fetched |-> <<>>, report |-> NoReport, out0 |-> <<>>]

Call(api, arg, res) == [api |-> api, arg |-> arg, res |-> res]

\* the view command before its RunE runs: ViewOptions, the error it returns,
\* the ref in use, the error of the fetch the progress indicator wraps,
\* whether StopPager is deferred, and the calls made on IOStreams, in order
NoView == [pc |-> "RunE",
           opts |-> [Selector |-> "", Ref |-> "", Web |-> FALSE, Prompt |-> FALSE,
                     Raw |-> FALSE, Yaml |-> FALSE],
           err |-> Nil, ref |-> "", fetchErr |-> Nil, deferred |-> FALSE,
           log |-> <<>>]

Init ==
    /\ pc = "RunE"
    /\ opts = [RunID |-> <<>>, Prompt |-> FALSE]
    /\ runID = <<>>
    /\ run = NoRun
    /\ prNumber = <<>>
    /\ err = Nil
    /\ rr = NoFrame
    /\ iter = 0
    /\ out = <<>>
    /\ calls = <<>>
    /\ sleeps = <<>>
    /\ view = NoView

\* ----------------------------------------------------------------- setup
\* NewCmdWatch's RunE: the run selector argument or the prompt
RunE ==
    /\ pc = "RunE"
    /\ \E args \in {<<>>} \cup {<<FormatInt(i)>> : i \in RunIDs}, canPrompt \in BOOLEAN :
        IF Len(args) > 0
        THEN /\ opts' = [opts EXCEPT !.RunID = args[1]]
             /\ pc' = "HttpClient"
             /\ err' = err
        ELSE IF ~canPrompt
        THEN /\ err' = FlagErr
             /\ pc' = "done"
             /\ opts' = opts
        ELSE /\ opts' = [opts EXCEPT !.Prompt = TRUE]
             /\ pc' = "HttpClient"
             /\ err' = err
    /\ UNCHANGED <<view, runID, run, prNumber, rr, iter, out, calls, sleeps>>

\* watchRun: c, err := opts.HttpClient()
HttpClient ==
    /\ pc = "HttpClient"
    /\ \E ok \in BOOLEAN :
        IF ok THEN pc' = "BaseRepo" /\ err' = err
              ELSE pc' = "done" /\ err' = HttpClientErr(<<ApiError>>)
    /\ UNCHANGED <<view, opts, runID, run, prNumber, rr, iter, out, calls, sleeps>>

\* watchRun: repo, err := opts.BaseRepo()
BaseRepo ==
    /\ pc = "BaseRepo"
    /\ \E ok \in BOOLEAN :
        IF ok THEN pc' = "PromptForRun" /\ err' = err
              ELSE pc' = "done" /\ err' = BaseRepoErr(<<ApiError>>)
    /\ UNCHANGED <<view, opts, runID, run, prNumber, rr, iter, out, calls, sleeps>>

\* watchRun: runID := opts.RunID; if opts.Prompt { runID, err = PromptForRun }
PromptForRun ==
    /\ pc = "PromptForRun"
    /\ IF opts.Prompt
       THEN \E ok \in BOOLEAN, i \in RunIDs :
            IF ok THEN /\ runID' = FormatInt(i)
                       /\ pc' = "GetRun"
                       /\ err' = err
                  ELSE /\ runID' = <<>>
                       /\ pc' = "done"
                       /\ err' = PromptErr(<<ApiError>>)
       ELSE /\ runID' = opts.RunID
            /\ pc' = "GetRun"
            /\ err' = err
    /\ UNCHANGED <<view, opts, run, prNumber, rr, iter, out, calls, sleeps>>

\* ------------------------------------------------------------- watchRun
\* run, err := shared.GetRun(client, repo, runID)
GetRun ==
    /\ pc = "GetRun"
    /\ \/ \E st \in Statuses, co \in Conclusions :
            /\ run' = [ID |-> ParseInt(runID), Status |-> st, Conclusion |-> co]
            /\ calls' = Append(calls, Call("GetRun", runID, st))
            /\ pc' = "PullRequestForRun"
            /\ err' = err
       \/ /\ run' = NoRun
          /\ calls' = Append(calls, Call("GetRun", runID, "err"))
          /\ pc' = "done"
          /\ err' = GetRunErr(<<ApiError>>)
    /\ UNCHANGED <<view, opts, runID, prNumber, rr, iter, out, sleeps>>

\* prNumber := ""; number, err := shared.PullRequestForRun(...); if err == nil {...}
PullRequestForRun ==
    /\ pc = "PullRequestForRun"
    /\ \/ \E number \in PRNumbers :
            /\ prNumber' = PRNumberOf(TRUE, number)
            /\ calls' = Append(calls, Call("PullRequestForRun", run.ID, "ok"))
       \/ /\ prNumber' = PRNumberOf(FALSE, 0)
          /\ calls' = Append(calls, Call("PullRequestForRun", run.ID, "err"))
    /\ pc' = "ClearScreen"
    /\ UNCHANGED <<view, opts, runID, run, err, rr, iter, out, sleeps>>

\* fmt.Fprint(opts.IO.Out, "\033[2J")
ClearScreen ==
    /\ pc = "ClearScreen"
    /\ out' = Append(out, "ESC[2J")
    /\ pc' = "LoopCheck"
    /\ UNCHANGED <<view, opts, runID, run, prNumber, err, rr, iter, calls, sleeps>>

\* a loop condition that tests the conclusion instead of the status
LoopCond_ByConclusion(r) == r.Conclusion = ""

\* the loop condition
LoopCond(r) == r.Status # Completed

\* for run.Status != shared.Completed { run, err = renderRun(...) ... } return nil
LoopCheck ==
    /\ pc = "LoopCheck"
    /\ IF LoopCond(run)
       THEN /\ iter < MaxIter
            /\ iter' = iter + 1
            /\ rr' = [NoFrame EXCEPT !.run = run, !.out0 = out]
            /\ pc' = "renderRun.GetRun"
       ELSE /\ pc' = "done"
            /\ UNCHANGED <<iter, rr>>
    /\ UNCHANGED <<view, opts, runID, run, prNumber, err, out, calls, sleeps>>

\* run, err = renderRun(...) returning; if err != nil { return err }
RenderReturn ==
    /\ pc = "renderRun.return"
    /\ run' = rr.run
    /\ rr' = NoFrame
    /\ IF rr.err # Nil
       THEN pc' = "done" /\ err' = rr.err
       ELSE pc' = "Sleep" /\ err' = err
    /\ UNCHANGED <<view, opts, runID, prNumber, iter, out, calls, sleeps>>

\* time.Duration(opts.Interval * 1000), a count of nanoseconds
SleepDuration == Interval * 1000

\* time.Sleep(time.Duration(opts.Interval * 1000))
Sleep ==
    /\ pc = "Sleep"
    /\ sleeps' = Append(sleeps, SleepDuration)
    /\ pc' = "LoopCheck"
    /\ UNCHANGED <<view, opts, runID, run, prNumber, err, rr, iter, out, calls>>

\* ------------------------------------------------------------ renderRun
\* run, err = shared.GetRun(client, repo, fmt.Sprintf("%d", run.ID))
RenderGetRun ==
    /\ pc = "renderRun.GetRun"
    /\ LET id == FormatInt(rr.run.ID) IN
       \/ \E st \in Statuses, co \in Conclusions :
            /\ rr' = [rr EXCEPT !.run = [ID |-> ParseInt(id), Status |-> st, Conclusion |-> co]]
            /\ calls' = Append(calls, Call("GetRun", id, st))
            /\ pc' = "renderRun.GetJobs"
       \/ /\ rr' = [rr EXCEPT !.run = NoRun,
                              !.err = GetRunErr(<<ApiError>>)]
          /\ calls' = Append(calls, Call("GetRun", id, "err"))
          /\ pc' = "renderRun.return"
    /\ UNCHANGED <<view, opts, runID, run, prNumber, err, iter, out, sleeps>>

\* jobs, err := shared.GetJobs(client, repo, *run)
RenderGetJobs ==
    /\ pc = "renderRun.GetJobs"
    /\ \/ \E js \in JobLists :
            /\ rr' = [rr EXCEPT !.jobs = js]
            /\ calls' = Append(calls, Call("GetJobs", rr.run.ID, "ok"))
            /\ pc' = "renderRun.GetAnnotations"
       \/ /\ rr' = [rr EXCEPT !.err = GetJobsErr(<<ApiError>>)]
          /\ calls' = Append(calls, Call("GetJobs", rr.run.ID, "err"))
          /\ pc' = "renderRun.return"
    /\ UNCHANGED <<view, opts, runID, run, prNumber, err, iter, out, sleeps>>

\* the fetched list put in front of the aggregate
AppendAnnotations_Prepend(annotations, fetchedList) == fetchedList \o annotations

\* annotations = append(annotations, as...)
AppendAnnotations(annotations, fetchedList) == annotations \o fetchedList

\* an annotation loop that does not break on an error
AnnotationLoopEnds_NoBreak(f) == f.job > Len(f.jobs)

\* the annotation loop is over: the range is exhausted or the body broke out
AnnotationLoopEnds(f) == f.annotationErr # Nil \/ f.job > Len(f.jobs)

\* one turn of: for _, job := range jobs { as, annotationErr = GetAnnotations; ... }
RenderGetAnnotations ==
    /\ pc = "renderRun.GetAnnotations"
    /\ ~AnnotationLoopEnds(rr)
    /\ rr.job <= Len(rr.jobs)
    /\ LET job == rr.jobs[rr.job] IN
       \/ \E l \in AnnLists :
            /\ rr' = [rr EXCEPT !.as = l,
                                !.annotationErr = Nil,
                                !.annotations = AppendAnnotations(rr.annotations, l),
                                !.fetched = Append(rr.fetched, l),
                                !.job = rr.job + 1]
            /\ calls' = Append(calls, Call("GetAnnotations", job, "ok"))
       \/ /\ rr' = [rr EXCEPT !.as = <<>>, !.annotationErr = <<ApiError>>]
          /\ calls' = Append(calls, Call("GetAnnotations", job, "err"))
    /\ pc' = pc
    /\ UNCHANGED <<view, opts, runID, run, prNumber, err, iter, out, sleeps>>

\* no special case at all
NoJobsFailure_Never(r, jobs) == FALSE

\* the special case: if len(jobs) == 0 && run.Conclusion == shared.Failure
NoJobsFailure(r, jobs) == Len(jobs) = 0 /\ r.Conclusion = Failure

\* the annotations section is written: if len(annotations) > 0
HasAnnotations(annotations) == Len(annotations) > 0

\* a redraw that clears the entire screen again
HeaderOut_FullClear == <<"ESC[2J", "ESC[J", "banner", "newline", "header", "newline">>

\* the two cursor codes in the other order
HeaderOut_ClearFirst == <<"ESC[J", "ESC[0;0H", "banner", "newline", "header", "newline">>

\* the writes of one report, in order
HeaderOut == <<"ESC[0;0H", "ESC[J", "banner", "newline", "header", "newline">>
JobsOut == <<"JOBS", "jobs">>
AnnotationsOut == <<"newline", "ANNOTATIONS", "annotations">>

\* a report whose special case returns before anything is written
ReportOut_EarlyReturn(f) ==
    IF NoJobsFailure(f.run, f.jobs) THEN <<>>
    ELSE HeaderOut \o JobsOut \o
         (IF HasAnnotations(f.annotations) THEN AnnotationsOut ELSE <<>>)

\* a report that is skipped once the fetched run is completed
ReportOut_SkipCompleted(f) ==
    IF f.run.Status = Completed THEN <<>>
    ELSE HeaderOut \o
         (IF NoJobsFailure(f.run, f.jobs) THEN <<>>
          ELSE JobsOut \o (IF HasAnnotations(f.annotations) THEN AnnotationsOut ELSE <<>>))

ReportOut(f) ==
    HeaderOut \o
    (IF NoJobsFailure(f.run, f.jobs) THEN <<>>
     ELSE JobsOut \o (IF HasAnnotations(f.annotations) THEN AnnotationsOut ELSE <<>>))

\* a header rendered from the run watchRun passed in, not the one just fetched
ReportArgs_StaleRun(f, pr) ==
    [header |-> <<[run |-> run, prNumber |-> pr]>>,
     jobs |-> IF NoJobsFailure(f.run, f.jobs) THEN <<>> ELSE <<f.jobs>>,
     annotations |-> IF ~NoJobsFailure(f.run, f.jobs) /\ HasAnnotations(f.annotations)
                     THEN <<f.annotations>> ELSE <<>>]

\* a header rendered without the suffix
ReportArgs_NoSuffix(f, pr) ==
    [header |-> <<[run |-> f.run, prNumber |-> <<>>]>>,
     jobs |-> IF NoJobsFailure(f.run, f.jobs) THEN <<>> ELSE <<f.jobs>>,
     annotations |-> IF ~NoJobsFailure(f.run, f.jobs) /\ HasAnnotations(f.annotations)
                     THEN <<f.annotations>> ELSE <<>>]

\* the arguments of RenderRunHeader, RenderJobs and RenderAnnotations
ReportArgs(f, pr) ==
    [header |-> <<[run |-> f.run, prNumber |-> pr]>>,
     jobs |-> IF NoJobsFailure(f.run, f.jobs) THEN <<>> ELSE <<f.jobs>>,
     annotations |-> IF ~NoJobsFailure(f.run, f.jobs) /\ HasAnnotations(f.annotations)
                     THEN <<f.annotations>> ELSE <<>>]

\* the cursor codes written before the annotation error is looked at
ReportWrites_CursorFirst(f) ==
    IF f.annotationErr # Nil THEN <<"ESC[0;0H", "ESC[J">> ELSE ReportOut(f)

\* what renderRun writes once the annotation loop is over: nothing when it
\* returns the annotation error, the report otherwise
ReportWrites(f) == IF f.annotationErr # Nil THEN <<>> ELSE ReportOut(f)

\* the end of the annotation loop: if annotationErr != nil { return run, err };
\* otherwise the report is written and renderRun returns run, nil
RenderReport ==
    /\ pc = "renderRun.GetAnnotations"
    /\ AnnotationLoopEnds(rr)
    /\ IF rr.annotationErr # Nil
       THEN rr' = [rr EXCEPT !.err = GetAnnotationsErr(rr.annotationErr)]
       ELSE rr' = [rr EXCEPT !.report = ReportArgs(rr, prNumber)]
    /\ out' = out \o ReportWrites(rr)
    /\ pc' = "renderRun.return"
    /\ UNCHANGED <<view, opts, runID, run, prNumber, err, iter, calls, sleeps>>

\* ------------------------------------------------------------------ spec
Next ==
    \/ RunE
    \/ HttpClient
    \/ BaseRepo
    \/ PromptForRun
    \/ GetRun
    \/ PullRequestForRun
    \/ ClearScreen
    \/ LoopCheck
    \/ RenderGetRun
    \/ RenderGetJobs
    \/ RenderGetAnnotations
    \/ RenderReport
    \/ RenderReturn
    \/ Sleep

Spec == Init /\ [][Next]_vars

\* the command is one sequential thread that the scheduler keeps running:
\* a step that can be taken is eventually taken (a blocking call returns,
\* a sleep ends)
FairSpec == Spec /\ WF_vars(Next)

TypeOK ==
    /\ pc \in {"RunE", "HttpClient", "BaseRepo", "PromptForRun", "GetRun",
               "PullRequestForRun", "ClearScreen", "LoopCheck", "Sleep", "done",
               "renderRun.GetRun", "renderRun.GetJobs",
               "renderRun.GetAnnotations", "renderRun.return"}
    /\ iter \in 0..MaxIter
    /\ Len(sleeps) <= iter
    /\ rr.jobs \in JobLists

\* ------------------------------------------------- workflow view command
\* NewCmdView's RunE: flags and the workflow argument
ViewRunE ==
    /\ view.pc = "RunE"
    /\ \E args \in {<<>>, <<"ci.yml">>}, canPrompt \in BOOLEAN,
          web \in BOOLEAN, yaml \in BOOLEAN, ref \in {"", "main"} :
        LET o1 == [view.opts EXCEPT !.Web = web, !.Yaml = yaml, !.Ref = ref,
                                    !.Raw = ~canPrompt]
            o2 == IF Len(args) > 0 THEN [o1 EXCEPT !.Selector = args[1]]
                  ELSE IF canPrompt THEN [o1 EXCEPT !.Prompt = TRUE]
                  ELSE o1
        IN  IF Len(args) = 0 /\ ~canPrompt
            THEN view' = [view EXCEPT !.opts = o2, !.pc = "done",
                     !.err = <<"workflow argument required when not running interactively">>]
            ELSE IF o2.Selector = "" /\ o2.Yaml
            THEN view' = [view EXCEPT !.opts = o2, !.pc = "done",
                     !.err = <<"workflow argument required when viewing workflow yaml file">>]
            ELSE view' = [view EXCEPT !.opts = o2, !.pc = "runView"]
    /\ UNCHANGED watchVars

\* where runView goes once the workflow is resolved
runViewBranch(o) ==
    IF o.Web THEN (IF o.Yaml /\ o.Ref = "" THEN "runView.StartProgress"
                   ELSE "runView.OpenInBrowser")
    ELSE IF o.Yaml THEN "viewWorkflowContent.BaseRepo"
    ELSE "viewWorkflowInfo.BaseRepo"

\* runView: HttpClient, BaseRepo, ResolveWorkflow, then the branch taken
runView ==
    /\ view.pc = "runView"
    /\ \/ \E e \in {Errorf("could not build http client", <<ApiError>>),
                    Errorf("could not determine base repo", <<ApiError>>),
                    <<"there are no enabled workflows">>,
                    <<ApiError>>} :
            view' = [view EXCEPT !.pc = "done", !.err = e]
       \/ view' = [view EXCEPT !.pc = runViewBranch(view.opts), !.ref = view.opts.Ref]
    /\ UNCHANGED watchVars

\* opts.IO.StartProgressIndicator()
StartProgressIndicator(l) == Append(l, "StartProgress")

\* the fetch error tested before the indicator is stopped
StopProgressIndicator_AfterErrCheck(l, fetchErr) ==
    IF fetchErr # Nil THEN l ELSE Append(l, "StopProgress")

\* opts.IO.StopProgressIndicator(), called before the fetch error is tested
StopProgressIndicator(l, fetchErr) == Append(l, "StopProgress")

\* runView: opts.IO.StartProgressIndicator()
runViewStartProgress ==
    /\ view.pc = "runView.StartProgress"
    /\ view' = [view EXCEPT !.log = StartProgressIndicator(view.log),
                            !.pc = "runView.RepoDefaultBranch"]
    /\ UNCHANGED watchVars

\* runView: ref, err = api.RepoDefaultBranch(client, repo)
runViewRepoDefaultBranch ==
    /\ view.pc = "runView.RepoDefaultBranch"
    /\ \/ view' = [view EXCEPT !.ref = "main", !.fetchErr = Nil,
                               !.log = Append(view.log, "fetch"),
                               !.pc = "runView.StopProgress"]
       \/ view' = [view EXCEPT !.ref = "", !.fetchErr = <<ApiError>>,
                               !.log = Append(view.log, "fetch"),
                               !.pc = "runView.StopProgress"]
    /\ UNCHANGED watchVars

\* runView: opts.IO.StopProgressIndicator(); if err != nil { return err }
runViewStopProgress ==
    /\ view.pc = "runView.StopProgress"
    /\ view' = [view EXCEPT !.log = StopProgressIndicator(view.log, view.fetchErr),
                            !.err = view.fetchErr,
                            !.pc = IF view.fetchErr # Nil THEN "done"
                                   ELSE "runView.OpenInBrowser"]
    /\ UNCHANGED watchVars

\* runView: the "Opening ..." line on a terminal, then opts.OpenInBrowser(url)
runViewOpenInBrowser ==
    /\ view.pc = "runView.OpenInBrowser"
    /\ \E tty \in BOOLEAN, e \in {Nil, <<ApiError>>} :
        view' = [view EXCEPT !.log = IF tty THEN Append(view.log, "write") ELSE view.log,
                             !.err = e,
                             !.pc = "done"]
    /\ UNCHANGED watchVars

\* viewWorkflowContent: repo, err := opts.BaseRepo()
viewWorkflowContentBaseRepo ==
    /\ view.pc = "viewWorkflowContent.BaseRepo"
    /\ \/ view' = [view EXCEPT !.pc = "viewWorkflowContent.StartProgress"]
       \/ view' = [view EXCEPT !.pc = "done",
                     !.err = Errorf("could not determine base repo", <<ApiError>>)]
    /\ UNCHANGED watchVars

\* viewWorkflowContent: opts.IO.StartProgressIndicator()
viewWorkflowContentStartProgress ==
    /\ view.pc = "viewWorkflowContent.StartProgress"
    /\ view' = [view EXCEPT !.log = StartProgressIndicator(view.log),
                            !.pc = "viewWorkflowContent.getWorkflowContent"]
    /\ UNCHANGED watchVars

\* getWorkflowContent: the REST call fails, the base64 decoding fails, or the
\* file's text is returned
getWorkflowContent ==
    /\ view.pc = "viewWorkflowContent.getWorkflowContent"
    /\ \E e \in {Nil, <<ApiError>>, Errorf("failed to decode workflow file", <<ApiError>>)} :
        view' = [view EXCEPT !.fetchErr = e,
                             !.log = Append(view.log, "fetch"),
                             !.pc = "viewWorkflowContent.StopProgress"]
    /\ UNCHANGED watchVars

\* viewWorkflowContent: opts.IO.StopProgressIndicator(); if err != nil { return ... }
viewWorkflowContentStopProgress ==
    /\ view.pc = "viewWorkflowContent.StopProgress"
    /\ view' = [view EXCEPT !.log = StopProgressIndicator(view.log, view.fetchErr),
                            !.err = IF view.fetchErr # Nil
                                    THEN Errorf("could not get workflow file content",
                                                view.fetchErr)
                                    ELSE Nil,
                            !.pc = IF view.fetchErr # Nil THEN "done"
                                   ELSE "viewWorkflowContent.StartPager"]
    /\ UNCHANGED watchVars

\* viewWorkflowContent: if err := opts.IO.StartPager(); err != nil { print it };
\* defer opts.IO.StopPager()
viewWorkflowContentStartPager ==
    /\ view.pc = "viewWorkflowContent.StartPager"
    /\ \/ view' = [view EXCEPT !.log = Append(view.log, "StartPager"),
                               !.deferred = TRUE,
                               !.pc = "viewWorkflowContent.Write"]
       \/ view' = [view EXCEPT !.log = view.log \o <<"StartPagerFailed", "writeErr">>,
                               !.deferred = TRUE,
                               !.pc = "viewWorkflowContent.Write"]
    /\ UNCHANGED watchVars

\* the deferred calls run when viewWorkflowContent returns
RunDeferred(l, deferred) == IF deferred THEN Append(l, "StopPager") ELSE l

\* viewWorkflowContent: the rendered or the raw file is written; every return
\* runs the deferred StopPager
viewWorkflowContentWrite ==
    /\ view.pc = "viewWorkflowContent.Write"
    /\ \E e \in {Nil, <<ApiError>>}, renderFails \in BOOLEAN, endsInNewline \in BOOLEAN :
        LET written ==
              IF ~view.opts.Raw
              THEN <<"write", "write">>
                     \o (IF e # Nil /\ renderFails THEN <<>> ELSE <<"write">>)
              ELSE IF e # Nil THEN <<"write">>
              ELSE <<"write">> \o (IF endsInNewline THEN <<>> ELSE <<"write">>)
        IN  view' = [view EXCEPT !.log = RunDeferred(view.log \o written, view.deferred),
                                 !.deferred = FALSE,
                                 !.err = e,
                                 !.pc = "done"]
    /\ UNCHANGED watchVars

\* viewWorkflowInfo: repo, err := opts.BaseRepo()
viewWorkflowInfoBaseRepo ==
    /\ view.pc = "viewWorkflowInfo.BaseRepo"
    /\ \/ view' = [view EXCEPT !.pc = "viewWorkflowInfo.StartProgress"]
       \/ view' = [view EXCEPT !.pc = "done",
                     !.err = Errorf("could not determine base repo", <<ApiError>>)]
    /\ UNCHANGED watchVars

\* viewWorkflowInfo: opts.IO.StartProgressIndicator()
viewWorkflowInfoStartProgress ==
    /\ view.pc = "viewWorkflowInfo.StartProgress"
    /\ view' = [view EXCEPT !.log = StartProgressIndicator(view.log),
                            !.pc = "viewWorkflowInfo.getWorkflowRuns"]
    /\ UNCHANGED watchVars

\* getWorkflowRuns: the REST call fails or the recent runs are returned
getWorkflowRuns ==
    /\ view.pc = "viewWorkflowInfo.getWorkflowRuns"
    /\ \E e \in {Nil, <<ApiError>>} :
        view' = [view EXCEPT !.fetchErr = e,
                             !.log = Append(view.log, "fetch"),
                             !.pc = "viewWorkflowInfo.StopProgress"]
    /\ UNCHANGED watchVars

\* viewWorkflowInfo: opts.IO.StopProgressIndicator(); if err != nil { return ... }
viewWorkflowInfoStopProgress ==
    /\ view.pc = "viewWorkflowInfo.StopProgress"
    /\ view' = [view EXCEPT !.log = StopProgressIndicator(view.log, view.fetchErr),
                            !.err = IF view.fetchErr # Nil
                                    THEN Errorf("failed to get runs", view.fetchErr)
                                    ELSE Nil,
                            !.pc = IF view.fetchErr # Nil THEN "done"
                                   ELSE "viewWorkflowInfo.Write"]
    /\ UNCHANGED watchVars

\* viewWorkflowInfo: header, totals, the table of recent runs, footer
viewWorkflowInfoWrite ==
    /\ view.pc = "viewWorkflowInfo.Write"
    /\ \E totalRuns \in 0..1, e \in {Nil, <<ApiError>>} :
        LET head == <<"write", "write", "write">>
                      \o (IF totalRuns # 0 THEN <<"write">> ELSE <<>>)
            foot == <<"write">> \o (IF totalRuns # 0 THEN <<"write">> ELSE <<>>)
                      \o <<"write">>
        IN  view' = [view EXCEPT !.log = view.log \o head
                                          \o (IF e = Nil THEN <<"write">> \o foot ELSE <<>>),
                                 !.err = e,
                                 !.pc = "done"]
    /\ UNCHANGED watchVars

ViewNext ==
    \/ ViewRunE
    \/ runView
    \/ runViewStartProgress
    \/ runViewRepoDefaultBranch
    \/ runViewStopProgress
    \/ runViewOpenInBrowser
    \/ viewWorkflowContentBaseRepo
    \/ viewWorkflowContentStartProgress
    \/ getWorkflowContent
    \/ viewWorkflowContentStopProgress
    \/ viewWorkflowContentStartPager
    \/ viewWorkflowContentWrite
    \/ viewWorkflowInfoBaseRepo
    \/ viewWorkflowInfoStartProgress
    \/ getWorkflowRuns
    \/ viewWorkflowInfoStopProgress
    \/ viewWorkflowInfoWrite

ViewSpec == Init /\ [][ViewNext]_vars

\* ---------------------------------------------------------- observations
CallsOf(api) == SelectSeq(calls, LAMBDA c : c.api = api)
NumCalls(api) == Len(CallsOf(api))
RunFetchResults == [i \in 1..NumCalls("GetRun") |-> CallsOf("GetRun")[i].res]
NumOut(tok) == Len(SelectSeq(out, LAMBDA t : t = tok))

\* a render is one report written: each report has exactly one header line
NumRenders == NumOut("header")
\* some run fetch has returned a completed run
CompletedObserved == \E i \in 1..Len(RunFetchResults) : RunFetchResults[i] = Completed
NonTerminalSnapshots ==
    Cardinality({i \in 1..Len(RunFetchResults) : RunFetchResults[i] \notin {Completed, "err"}})
JobsAndAnnotationsFetchesOK ==
    \A i \in 1..Len(calls) :
        calls[i].api \in {"GetJobs", "GetAnnotations"} => calls[i].res # "err"

\* ----------------------------------------------------------------- claims
\* C1: completed is absorbing: once a run fetch (initial or in an iteration)
\* has returned a completed run, no step issues another run fetch and no
\* step begins a loop iteration.
C1_CompletedAbsorbing ==
    [][CompletedObserved =>
          /\ NumCalls("GetRun")' = NumCalls("GetRun")
          /\ iter' = iter
          /\ pc' # "renderRun.GetRun"]_vars

\* completed was first observed by the second iteration's fetch, and the
\* command ran on to its return
C1_Witness ==
    /\ pc = "done"
    /\ RunFetchResults = <<InProgress, InProgress, Completed>>

\* C2: when watchRun returns nil (the fetched snapshots end in a completed
\* one), the number of renders equals the number of non-terminal snapshots
\* fetched; and the loop check that finds the run completed writes nothing
\* and ends the loop.
C2_RenderPerNonTerminal ==
    /\ [](pc = "done" /\ err = Nil /\ CompletedObserved
            => NumRenders = NonTerminalSnapshots)
    /\ [][pc = "LoopCheck" /\ run.Status = Completed
            => out' = out /\ pc' = "done"]_vars

\* two non-terminal snapshots, then a terminal one: two renders
C2_Witness ==
    /\ pc = "done"
    /\ err = Nil
    /\ RunFetchResults = <<InProgress, InProgress, Completed>>
    /\ NumRenders = 2

\* C3 as stated: in_progress on the first fetch and completed/success on the
\* next give exactly 2 renders and no error; completed on the very first
\* fetch gives exactly 1 render and no error.
C3_TwoRendersOrOne ==
    pc = "done" /\ JobsAndAnnotationsFetchesOK =>
        /\ RunFetchResults = <<InProgress, Completed>> /\ run.Conclusion = Success
              => NumRenders = 2 /\ err = Nil
        /\ RunFetchResults = <<Completed>>
              => NumRenders = 1 /\ err = Nil

\* C3 amended: in_progress on the first fetch and completed/success on the
\* next give exactly 1 render and no error; completed on the very first
\* fetch gives no render and no error.
C3_OneRenderOrNone ==
    pc = "done" /\ JobsAndAnnotationsFetchesOK =>
        /\ RunFetchResults = <<InProgress, Completed>> /\ run.Conclusion = Success
              => NumRenders = 1 /\ err = Nil
        /\ RunFetchResults = <<Completed>>
              => NumRenders = 0 /\ err = Nil

C3_Witness ==
    /\ pc = "done"
    /\ JobsAndAnnotationsFetchesOK
    /\ RunFetchResults = <<InProgress, Completed>>
    /\ run.Conclusion = Success
    /\ NumRenders = 1

\* C4: if the initial run fetch returns a completed run the loop body never
\* executes: no second run fetch, no jobs fetch, no annotations fetch, no
\* report, no sleep, and the command returns nil.
C4_InitialCompletedSkipsLoop ==
    (Len(RunFetchResults) >= 1 /\ RunFetchResults[1] = Completed) =>
        /\ iter = 0
        /\ rr = NoFrame
        /\ NumCalls("GetRun") = 1
        /\ NumCalls("GetJobs") = 0
        /\ NumCalls("GetAnnotations") = 0
        /\ \A i \in 1..Len(out) : out[i] = "ESC[2J"
        /\ sleeps = <<>>
        /\ pc \in {"PullRequestForRun", "ClearScreen", "LoopCheck", "done"}
        /\ err = Nil

C4_Witness ==
    /\ pc = "done"
    /\ RunFetchResults = <<Completed>>
    /\ out = <<"ESC[2J">>

InRenderRun == pc \in {"renderRun.GetRun", "renderRun.GetJobs",
                       "renderRun.GetAnnotations", "renderRun.return"}
LastCall == calls[Len(calls)]
FailedCall(i, api) == calls[i].api = api /\ calls[i].res = "err"

\* C5: an iteration in which a fetch fails writes nothing: while renderRun
\* holds an error the output stream is as it was when renderRun was called
\* and no renderer has been called, and after the command has returned a
\* fetch error from iteration n the stream holds the n-1 earlier reports
\* and not one cursor code, banner or header more.
C5_FailedIterationWritesNothing ==
    /\ InRenderRun /\ (rr.err # Nil \/ rr.annotationErr # Nil)
          => out = rr.out0 /\ rr.report = NoReport
    /\ pc = "done" /\ err # Nil /\ iter >= 1
          => /\ NumRenders = iter - 1
             /\ NumOut("ESC[0;0H") = iter - 1
             /\ NumOut("ESC[J") = iter - 1
             /\ NumOut("banner") = iter - 1
             /\ NumOut("ESC[2J") = 1
             /\ out[Len(out)] \in {"ESC[2J", "newline", "jobs", "annotations"}

\* the second iteration fails with the first iteration's report on screen
C5_Witness ==
    /\ pc = "renderRun.return"
    /\ rr.err # Nil
    /\ iter = 2
    /\ NumRenders = 1
    /\ out = rr.out0

\* C6: a failed jobs fetch is the last request of the command: no
\* annotations fetch follows in that iteration and no later iteration runs,
\* no sleep follows, and the error renderRun and then the command return
\* contains "failed to get jobs".
C6_JobsFailureAborts ==
    \A i \in 1..Len(calls) : FailedCall(i, "GetJobs") =>
        /\ i = Len(calls)
        /\ pc \in {"renderRun.return", "done"}
        /\ pc = "renderRun.return" =>
              Contains(rr.err, "failed to get jobs") /\ rr.fetched = <<>>
        /\ pc = "done" => Contains(err, "failed to get jobs")
        /\ iter = NumCalls("GetRun") - 1
        /\ Len(sleeps) = iter - 1

\* the jobs fetch of the second iteration failed and the command returned
C6_Witness ==
    /\ pc = "done"
    /\ iter = 2
    /\ FailedCall(Len(calls), "GetJobs")
    /\ NumCalls("GetJobs") = 2

RECURSIVE SumLen(_)
SumLen(ss) == IF Len(ss) = 0 THEN 0 ELSE Len(Head(ss)) + SumLen(Tail(ss))

\* C7: when renderRun returns without error, one annotations fetch was made
\* per job, in job order, and the aggregated list is the concatenation of
\* the fetched lists in that order: its length is the sum of theirs, the
\* list of job i sits, in its own order, right after those of the jobs
\* before i, and that list is what RenderAnnotations was handed.
C7_AnnotationsConcatenated ==
    pc = "renderRun.return" /\ rr.err = Nil =>
        LET n == Len(rr.jobs)
            base == Len(calls) - n
            offset(i) == SumLen(SubSeq(rr.fetched, 1, i - 1))
        IN  /\ Len(rr.fetched) = n
            /\ base >= 0
            /\ \A i \in 1..n : calls[base + i] = Call("GetAnnotations", rr.jobs[i], "ok")
            /\ Len(rr.annotations) = SumLen(rr.fetched)
            /\ \A i \in 1..n :
                  SubSeq(rr.annotations, offset(i) + 1, offset(i) + Len(rr.fetched[i]))
                      = rr.fetched[i]
            /\ rr.annotations = Flatten(rr.fetched)
            /\ rr.report.annotations =
                  (IF Len(rr.annotations) > 0 THEN <<rr.annotations>> ELSE <<>>)

\* two jobs, whose lists a sort, a reversal or a deduplication would change
C7_Witness ==
    /\ pc = "renderRun.return"
    /\ rr.err = Nil
    /\ rr.fetched = << <<"b", "a">>, <<"a">> >>
    /\ rr.report.annotations = << <<"b", "a", "a">> >>

\* C8: once the annotations fetch of job k has failed, it is the last
\* request of the command: the k-1 fetches before it were those of the jobs
\* before k, no job after k is fetched, nothing is written and no renderer
\* is called, and the error returned contains "failed to get annotations".
C8_AnnotationFailureStops ==
    /\ InRenderRun /\ rr.annotationErr # Nil =>
          /\ rr.job <= Len(rr.jobs)
          /\ LastCall = Call("GetAnnotations", rr.jobs[rr.job], "err")
          /\ Len(rr.fetched) = rr.job - 1
          /\ \A i \in 1..(rr.job - 1) :
                calls[Len(calls) - rr.job + i] = Call("GetAnnotations", rr.jobs[i], "ok")
          /\ rr.report = NoReport
          /\ out = rr.out0
          /\ pc = "renderRun.return" =>
                Contains(rr.err, "failed to get annotations")
    /\ \A i \in 1..Len(calls) : FailedCall(i, "GetAnnotations") =>
          /\ i = Len(calls)
          /\ pc \in {"renderRun.GetAnnotations", "renderRun.return", "done"}
          /\ pc # "done" => rr.annotationErr # Nil
          /\ pc = "done" => Contains(err, "failed to get annotations")

\* the fetch for the first of two jobs failed: the second is never fetched
C8_Witness ==
    /\ pc = "renderRun.return"
    /\ rr.annotationErr # Nil
    /\ Len(rr.jobs) = 2
    /\ rr.job = 1

\* the last report written is the header alone
LastRenderHeaderOnly == Len(out) >= 2 /\ out[Len(out) - 1] = "header"
LastRunFetch == RunFetchResults[Len(RunFetchResults)]

\* C9: an iteration whose fetched run has conclusion failure and no jobs
\* writes the header and neither a JOBS nor an ANNOTATIONS section, calls
\* neither RenderJobs nor RenderAnnotations and returns the fetched run with
\* a nil error; the loop check that follows tests that run: the command
\* returns nil if its status is completed and starts another iteration
\* otherwise.
C9_NoJobsFailureIteration ==
    /\ [](pc = "renderRun.return" /\ rr.err = Nil
            /\ Len(rr.jobs) = 0 /\ rr.run.Conclusion = Failure
          => /\ out = rr.out0 \o <<"ESC[0;0H", "ESC[J", "banner", "newline",
                                   "header", "newline">>
             /\ rr.report.header = <<[run |-> rr.run, prNumber |-> prNumber]>>
             /\ rr.report.jobs = <<>>
             /\ rr.report.annotations = <<>>)
    /\ [](pc \in {"Sleep", "LoopCheck"} /\ LastRenderHeaderOnly
          => /\ err = Nil
             /\ rr = NoFrame
             /\ run.Conclusion = Failure
             /\ run.Status = LastRunFetch)
    /\ [][pc = "renderRun.return" /\ rr.err = Nil
            /\ Len(rr.jobs) = 0 /\ rr.run.Conclusion = Failure
          => run' = rr.run /\ err' = Nil /\ pc' = "Sleep"]_vars
    /\ [][pc = "LoopCheck" /\ LastRenderHeaderOnly
          => IF run.Status = Completed
             THEN pc' = "done" /\ err' = Nil
             ELSE pc' = "renderRun.GetRun" /\ rr'.run = run]_vars

\* a completed run that failed without jobs: header only, then return nil
C9_Witness ==
    /\ pc = "done"
    /\ err = Nil
    /\ LastRenderHeaderOnly
    /\ run = [ID |-> 12, Status |-> Completed, Conclusion |-> Failure]

PRLookupFailed == \E i \in 1..Len(calls) : FailedCall(i, "PullRequestForRun")
FetchFailedLast ==
    /\ Len(calls) >= 1
    /\ LastCall.api \in {"GetRun", "GetJobs", "GetAnnotations"}
    /\ LastCall.res = "err"

\* C10: a failed pull-request lookup is not fatal: right after it the
\* command goes on with a nil error, the suffix is empty and every header
\* is rendered with the empty suffix; and the loop follows the one rule it
\* follows after a successful lookup: once a run has been fetched, the
\* command returns nil only after a completed run was fetched and returns
\* an error only when its last request was a failed run, jobs or
\* annotations fetch.
C10_PRLookupFailureNotFatal ==
    /\ PRLookupFailed =>
          /\ prNumber = <<>>
          /\ rr.report.header # <<>> => rr.report.header[1].prNumber = <<>>
          /\ FailedCall(Len(calls), "PullRequestForRun") =>
                err = Nil /\ pc \in {"ClearScreen", "LoopCheck", "renderRun.GetRun", "done"}
    /\ NumCalls("GetRun") >= 1 =>
          /\ pc = "done" /\ err = Nil => LastRunFetch = Completed
          /\ err # Nil <=> pc = "done" /\ FetchFailedLast
          /\ pc = "done" /\ err # Nil /\ LastCall.api = "GetRun" => Contains(err, "failed to get run")

\* the lookup failed and the second iteration has rendered its header
C10_Witness ==
    /\ PRLookupFailed
    /\ pc = "renderRun.return"
    /\ iter = 2
    /\ rr.report.header = <<[run |-> rr.run, prNumber |-> <<>>]>>

FetchApis == {"GetRun", "GetJobs", "GetAnnotations"}
StageMessage(api) ==
    CASE api = "GetRun" -> "failed to get run"
      [] api = "GetJobs" -> "failed to get jobs"
      [] api = "GetAnnotations" -> "failed to get annotations"

\* C11: a failed run, jobs or annotations fetch is the last request the
\* command makes (it is not retried and nothing else is fetched); the error
\* renderRun hands back and the error the command returns are non-nil, carry
\* the message of the stage that failed and wrap the underlying error.
C11_FetchFailureSurfaced ==
    \A i \in 1..Len(calls) :
        calls[i].api \in FetchApis /\ calls[i].res = "err" =>
            /\ i = Len(calls)
            /\ pc \in {"renderRun.GetAnnotations", "renderRun.return", "done"}
            /\ pc = "renderRun.return" =>
                  rr.err = <<StageMessage(calls[i].api), ApiError>>
            /\ pc = "done" =>
                  /\ err # Nil
                  /\ Contains(err, StageMessage(calls[i].api))
                  /\ err[Len(err)] = ApiError
                  /\ \A a \in FetchApis \ {calls[i].api} : ~Contains(err, StageMessage(a))

\* the run fetch of the second iteration failed and the command returned
C11_Witness ==
    /\ pc = "done"
    /\ iter = 2
    /\ RunFetchResults = <<InProgress, InProgress, "err">>
    /\ err = <<"failed to get run", ApiError>>

SetupErrors == {FlagErr, HttpClientErr(<<ApiError>>), BaseRepoErr(<<ApiError>>), <<ApiError>>}

\* C12: until setup is over nothing is fetched and nothing is written; a
\* command that ends without having fetched anything ended in a setup
\* failure and returns a non-nil error, and a command that returns a setup
\* error has fetched nothing, written nothing and slept never.
C12_SetupErrorsBeforePolling ==
    /\ pc \in {"RunE", "HttpClient", "BaseRepo", "PromptForRun", "GetRun"} =>
          calls = <<>> /\ out = <<>> /\ err = Nil
    /\ pc = "done" /\ calls = <<>> =>
          err \in SetupErrors /\ err # Nil
    /\ err \in SetupErrors =>
          /\ pc = "done"
          /\ calls = <<>>
          /\ out = <<>>
          /\ sleeps = <<>>
          /\ iter = 0
          /\ run = NoRun

\* the interactive prompt failed
C12_Witness ==
    /\ pc = "done"
    /\ opts.Prompt
    /\ err = <<ApiError>>
    /\ calls = <<>>

FetchFailed == \E i \in 1..Len(calls) : calls[i].api \in FetchApis /\ calls[i].res = "err"

\* the loop check has found the run not completed: polling goes on (in the
\* model, up to the bound on iterations)
StillPolling == pc = "LoopCheck" /\ run.Status # Completed

\* C13: under fair scheduling the command eventually returns or is still
\* polling a run that no fetch has shown completed, no fetch having failed:
\* once a run fetch has returned a completed run, or a fetch has failed,
\* polling does not go on, so the command returns; after polling has begun
\* it returns nil exactly when the last run fetched was completed and no
\* fetch failed, and an error exactly when a fetch failed; and the loop has
\* no other exit: a loop check that finds the run not completed begins
\* another iteration, and nothing but a return ends the command.
C13_LoopExits ==
    /\ <>(pc = "done" \/ (StillPolling /\ iter = MaxIter))
    /\ [](CompletedObserved \/ FetchFailed => ~StillPolling)
    /\ [](pc = "done" /\ NumCalls("GetRun") >= 1 =>
            /\ err = Nil <=> ~FetchFailed /\ LastRunFetch = Completed
            /\ err # Nil <=> FetchFailed)
    /\ [][pc = "LoopCheck" /\ run.Status # Completed
            => pc' = "renderRun.GetRun" /\ iter' = iter + 1]_vars
    /\ [][pc' = "done" =>
            \/ pc = "LoopCheck" /\ run.Status = Completed /\ err' = Nil
            \/ pc = "renderRun.return" /\ rr.err # Nil /\ err' = rr.err
            \/ pc \in {"RunE", "HttpClient", "BaseRepo", "PromptForRun", "GetRun"}
                 /\ err' # Nil]_vars

\* the annotations fetch of the second iteration failed and the command
\* returned its error
C13_Witness ==
    /\ pc = "done"
    /\ iter = 2
    /\ FailedCall(Len(calls), "GetAnnotations")
    /\ err = <<"failed to get annotations", ApiError>>

\* run fetches made by loop iterations that returned a run not completed
NonTerminalIterationFetches ==
    Cardinality({i \in 2..Len(RunFetchResults) : RunFetchResults[i] = InProgress})

\* C14: no sleep is performed while the run just fetched is completed, and
\* when the command returns nil the number of sleeps equals the number of
\* iterations whose fetched run was not completed.
C14_SleepOnlyWhenNotTerminal ==
    /\ pc = "Sleep" => run.Status # Completed
    /\ pc = "done" /\ err = Nil => Len(sleeps) = NonTerminalIterationFetches

\* C15 as stated: the cursor is moved and the screen cleared before the
\* iteration's run fetch, so the two codes are on the stream while the jobs
\* and the annotations are fetched.
C15_CursorCodesBeforeFetch ==
    pc \in {"renderRun.GetJobs", "renderRun.GetAnnotations"} =>
        out = rr.out0 \o <<"ESC[0;0H", "ESC[J">>

\* C15 amended: an iteration fetches the run by its identifier, then the
\* jobs of that run, then the annotations of each job in job order, one
\* request after the other, and writes nothing meanwhile; only then does it
\* move the cursor to the origin, clear to the end of the screen and write
\* the report.
C15_FetchesThenCursorThenReport ==
    /\ pc \in {"renderRun.GetRun", "renderRun.GetJobs", "renderRun.GetAnnotations"}
          => out = rr.out0
    /\ pc = "renderRun.return" /\ rr.err = Nil =>
          LET n == Len(rr.jobs)
              base == Len(calls) - n - 2
              wrote == SubSeq(out, Len(rr.out0) + 1, Len(out))
          IN  /\ base >= 2
              /\ calls[base + 1] = Call("GetRun", FormatInt(run.ID), rr.run.Status)
              /\ calls[base + 2] = Call("GetJobs", rr.run.ID, "ok")
              /\ \A i \in 1..n :
                    calls[base + 2 + i] = Call("GetAnnotations", rr.jobs[i], "ok")
              /\ SubSeq(out, 1, Len(rr.out0)) = rr.out0
              /\ Len(wrote) >= 6
              /\ SubSeq(wrote, 1, 6) = <<"ESC[0;0H", "ESC[J", "banner", "newline",
                                         "header", "newline">>
              /\ \A i \in 3..Len(wrote) : wrote[i] \notin {"ESC[0;0H", "ESC[J", "ESC[2J"}

\* a full report after the fetches for two jobs
C15_Witness ==
    /\ pc = "renderRun.return"
    /\ rr.err = Nil
    /\ Len(rr.jobs) = 2
    /\ Len(out) = Len(rr.out0) + 11

\* C16: a report is made of one iteration's data only: renderRun starts
\* with no jobs and no annotations, the header is rendered from the run this
\* iteration fetched, the job list is the one fetched for that run, the
\* annotations are those fetched in this iteration for those jobs, and the
\* loop check tests the run fetched last.
C16_OneIterationPerRender ==
    /\ pc = "renderRun.GetRun" =>
          rr = [NoFrame EXCEPT !.run = run, !.out0 = out]
    /\ pc = "renderRun.GetJobs" =>
          /\ rr.jobs = <<>> /\ rr.annotations = <<>> /\ rr.fetched = <<>>
          /\ LastCall = Call("GetRun", FormatInt(run.ID), rr.run.Status)
          /\ rr.run.ID = run.ID
    /\ pc = "renderRun.return" /\ rr.err = Nil =>
          LET n == Len(rr.jobs)
              base == Len(calls) - n - 2
          IN  /\ calls[base + 1] = Call("GetRun", FormatInt(run.ID), rr.run.Status)
              /\ calls[base + 2] = Call("GetJobs", rr.run.ID, "ok")
              /\ \A i \in 1..n :
                    calls[base + 2 + i] = Call("GetAnnotations", rr.jobs[i], "ok")
              /\ Len(rr.fetched) = n
              /\ rr.report.header = <<[run |-> rr.run, prNumber |-> prNumber]>>
              /\ rr.report.jobs \in {<<>>, <<rr.jobs>>}
              /\ rr.report.annotations \in {<<>>, <<Flatten(rr.fetched)>>}
    /\ pc \in {"Sleep", "LoopCheck"} =>
          /\ rr = NoFrame
          /\ run.Status = LastRunFetch
          /\ run.ID = ParseInt(runID)

\* the second iteration renders a completed run after an in_progress one,
\* with annotations
C16_Witness ==
    /\ pc = "renderRun.return"
    /\ iter = 2
    /\ run.Status = InProgress
    /\ rr.run.Status = Completed
    /\ rr.report.header = <<[run |-> rr.run, prNumber |-> prNumber]>>
    /\ rr.report.annotations = << <<"a", "b", "a">> >>

\* C17: every duration handed to time.Sleep is Interval seconds, that is
\* Interval * 1,000,000,000 nanoseconds.
C17_SleepsIntervalSeconds ==
    \A i \in 1..Len(sleeps) : sleeps[i] = Interval * 1000000000

\* C18: the full-screen clear is written once, as the first write, before
\* the first iteration (also when the run is already completed), and never
\* again; every redraw starts with cursor-to-origin followed at once by
\* clear-to-end-of-screen, and these codes appear nowhere else.
C18_FullClearOnce ==
    /\ NumOut("ESC[2J") <= 1
    /\ pc \in {"RunE", "HttpClient", "BaseRepo", "PromptForRun", "GetRun",
               "PullRequestForRun", "ClearScreen"} => out = <<>>
    /\ NumCalls("PullRequestForRun") = 1 /\ pc # "ClearScreen" =>
          out[1] = "ESC[2J" /\ NumOut("ESC[2J") = 1
    /\ \A i \in 1..Len(out) :
          /\ out[i] = "ESC[0;0H" => i > 1 /\ i < Len(out) /\ out[i + 1] = "ESC[J"
          /\ out[i] = "ESC[J" => i > 1 /\ out[i - 1] = "ESC[0;0H"
    /\ NumOut("ESC[0;0H") = NumRenders

\* two redraws after the one full clear
C18_Witness ==
    /\ pc = "done"
    /\ NumRenders = 2
    /\ NumOut("ESC[2J") = 1
    /\ NumOut("ESC[J") = 2

\* C19: the pull-request lookup is the second request, right after the
\* initial run fetch, and is made once; no other step changes prNumber, and
\* every header is rendered with that value.
C19_PRLookupOnce ==
    /\ [](/\ NumCalls("PullRequestForRun") <= 1
          /\ \A i \in 1..Len(calls) : calls[i].api = "PullRequestForRun" =>
                i = 2 /\ calls[1].api = "GetRun" /\ calls[1].res # "err"
          /\ pc \in {"ClearScreen", "LoopCheck", "Sleep"} \/ InRenderRun =>
                NumCalls("PullRequestForRun") = 1
          /\ rr.report.header # <<>> => rr.report.header[1].prNumber = prNumber)
    /\ [][pc # "PullRequestForRun" => prNumber' = prNumber]_vars
    /\ [][pc = "PullRequestForRun" => iter = 0 /\ out = <<>> /\ Len(calls') = 2]_vars

\* the lookup succeeded and the second iteration renders the same suffix
C19_Witness ==
    /\ pc = "renderRun.return"
    /\ iter = 2
    /\ prNumber = <<" #", 3>>
    /\ rr.report.header # <<>>
    /\ rr.report.header[1].prNumber = <<" #", 3>>
    /\ rr.run.Status = InProgress

ViewLogCount(ev) == Len(SelectSeq(view.log, LAMBDA x : x = ev))
ProgressRunning == ViewLogCount("StartProgress") > ViewLogCount("StopProgress")
PagerRunning == ViewLogCount("StartPager") > ViewLogCount("StopPager")

\* C20: in the view command every start of the progress indicator is
\* followed by the wrapped fetch and then, at once, by the stop: nothing is
\* written while it runs, and it does not run when the command returns,
\* whether the fetch failed or not; and a pager that viewWorkflowContent
\* started is stopped when it returns.
C20_IndicatorAndPagerStopped ==
    /\ \A i \in 1..Len(view.log) : view.log[i] = "StartProgress" =>
          /\ i + 1 <= Len(view.log) => view.log[i + 1] = "fetch"
          /\ i + 2 <= Len(view.log) => view.log[i + 2] = "StopProgress"
    /\ ViewLogCount("StartProgress") <= 1
    /\ ProgressRunning =>
          view.pc \in {"runView.RepoDefaultBranch", "runView.StopProgress",
                       "viewWorkflowContent.getWorkflowContent",
                       "viewWorkflowContent.StopProgress",
                       "viewWorkflowInfo.getWorkflowRuns",
                       "viewWorkflowInfo.StopProgress"}
    /\ PagerRunning => view.pc = "viewWorkflowContent.Write" /\ view.deferred
    /\ view.pc = "done" =>
          /\ ~ProgressRunning
          /\ ~PagerRunning
          /\ ~view.deferred
          /\ ViewLogCount("StartPager") = 1 =>
                view.log[Len(view.log)] = "StopPager"

\* the content fetch failed under the indicator, which was stopped
C20_Witness ==
    /\ view.pc = "done"
    /\ view.log = <<"StartProgress", "fetch", "StopProgress">>
    /\ Contains(view.err, "could not get workflow file content")

====
